---- MODULE Spec2Model ----
(***************************************************************************)
(* State-machine model of the Qwen image MCP server                        *)
(* (src/qwen_image_mcp.py): the stdio dispatcher loop run_mcp_server, the  *)
(* JSON-RPC dispatcher handle_mcp_request, the tool router                 *)
(* handle_tool_call and generate_image with its provider call, polling     *)
(* loop and download.                                                      *)
(*                                                                         *)
(* Python values are modelled as tagged records (Null, Str, Bool, Obj,     *)
(* Arr, Num); a Python dict is a function whose DOMAIN is the set of keys  *)
(* it holds.  Message texts are ASCII renderings of the Chinese texts of   *)
(* the source.                                                             *)
(***************************************************************************)
EXTENDS Integers, Sequences, FiniteSets, TLC

\* ------------------------------------------------------------------ bounds
\* number of input lines read before only end-of-input may follow
MaxLines == 2
\* number of non-terminal job statuses the provider reports for one job
MaxPolls == 2

\* ---------------------------------------------------------- Python values
Null == [t |-> "null"]
Str(s) == [t |-> "str", s |-> s]
Bool(b) == [t |-> "bool", b |-> b]
Num(n) == [t |-> "number", n |-> n]
Obj(d) == [t |-> "object", d |-> d]
Arr(a) == [t |-> "array", a |-> a]
EmptyDict == [k \in {} |-> Null]

\* Python truth value of a value
Truthy(v) ==
    CASE v.t = "null" -> FALSE
      [] v.t = "str" -> v.s # ""
      [] v.t = "bool" -> v.b
      [] v.t = "number" -> v.n # 0
      [] v.t = "object" -> DOMAIN v.d # {}
      [] v.t = "array" -> v.a # <<>>

\* a or b
PyOr(a, b) == IF Truthy(a) THEN a ELSE b

\* d.get(k, default)
DictGet(d, k, default) == IF k \in DOMAIN d THEN d[k] ELSE default

\* the name Python prints for the type of a value
TypeName(v) ==
    CASE v.t = "null" -> "NoneType"
      [] v.t = "str" -> "str"
      [] v.t = "bool" -> "bool"
      [] v.t = "number" -> "int"
      [] v.t = "object" -> "dict"
      [] v.t = "array" -> "list"

\* outcome of an expression that may raise
Ok(v) == [ok |-> TRUE, value |-> v]
Raise(msg) == [ok |-> FALSE, exc |-> msg]

\* ------------------------------------------------------------- registries
\* keys of _style_templates, in insertion order
StyleKeys ==
    << "general", "lifestyle", "food", "fashion", "travel", "beauty", "tech",
       "art", "traditional", "business", "nature", "portrait", "abstract",
       "cartoon" >>

\* keys of _platform_configs, in insertion order
PlatformKeys ==
    << "general", "xiaohongshu", "weibo", "douyin", "kuaishou", "instagram",
       "pinterest", "tiktok" >>

SeqRange(s) == { s[i] : i \in 1..Len(s) }

\* _load_style_templates: the style registry, keyed by style identifier
StyleTemplates ==
    [
      general |->
        [ name |-> "general purpose",
          base_prompt |-> "high quality picture",
          negative_prompt |-> "low resolution;errors;worst quality;low quality",
          photography_style |-> "professional photography",
          lighting |-> "natural light",
          quality_keywords |-> << "high definition", "fine detail", "sharp", "professional" >> ],
      lifestyle |->
        [ name |-> "lifestyle",
          base_prompt |-> "cosy life scene;ins style",
          negative_prompt |-> "cluttered;gloomy;low quality",
          photography_style |-> "lifestyle photography;candid shot",
          lighting |-> "warm natural light",
          quality_keywords |-> << "cosy", "natural", "lived-in", "comfortable" >> ],
      food |->
        [ name |-> "food",
          base_prompt |-> "food photography;refined plating",
          negative_prompt |-> "blurry;dull;stale;cluttered",
          photography_style |-> "food close-up;refined plating",
          lighting |-> "soft natural light;food colour emphasised",
          quality_keywords |-> << "tempting", "fresh", "refined", "vivid colours" >> ],
      fashion |->
        [ name |-> "fashion",
          base_prompt |-> "fashion photography;modern outfit",
          negative_prompt |-> "outdated;cheap;cluttered;low quality",
          photography_style |-> "fashion photography;modern composition",
          lighting |-> "professional lighting;garment texture emphasised",
          quality_keywords |-> << "fashion", "modern", "elegant", "high-end" >> ],
      travel |->
        [ name |-> "travel",
          base_prompt |-> "travel photography;picturesque",
          negative_prompt |-> "polluted;run-down;gloomy;blurry",
          photography_style |-> "landscape photography;grand composition",
          lighting |-> "natural light;scenic beauty shown",
          quality_keywords |-> << "magnificent", "natural", "crisp", "vast" >> ],
      beauty |->
        [ name |-> "beauty",
          base_prompt |-> "make-up and skincare;crisp and natural",
          negative_prompt |-> "rough;blemished;unnatural;over-retouched",
          photography_style |-> "beauty photography;crisp and natural",
          lighting |-> "soft light;skin texture emphasised",
          quality_keywords |-> << "crisp", "natural", "delicate", "smooth" >> ],
      tech |->
        [ name |-> "tech",
          base_prompt |-> "tech product;modern minimal",
          negative_prompt |-> "outdated;complicated;cluttered;low-end",
          photography_style |-> "product photography;minimal modern",
          lighting |-> "professional lighting;tech feel emphasised",
          quality_keywords |-> << "modern", "minimal", "high-tech", "finely made" >> ],
      art |->
        [ name |-> "art",
          base_prompt |-> "art creation;creative composition",
          negative_prompt |-> "mediocre;uncreative;rough;low quality",
          photography_style |-> "art photography;creative expression",
          lighting |-> "artistic light and shadow;atmospheric",
          quality_keywords |-> << "art", "creative", "unique", "expressive" >> ],
      traditional |->
        [ name |-> "traditional culture",
          base_prompt |-> "Chinese traditional culture;classical elegance",
          negative_prompt |-> "modernised;western;rough;discordant",
          photography_style |-> "traditional culture photography;classical composition",
          lighting |-> "classical light and shadow;traditional charm",
          quality_keywords |-> << "classical", "graceful", "traditional", "cultural depth" >> ],
      business |->
        [ name |-> "business",
          base_prompt |-> "business scene;professional and formal",
          negative_prompt |-> "casual;unprofessional;cluttered;low-end",
          photography_style |-> "business photography;formal composition",
          lighting |-> "professional business light",
          quality_keywords |-> << "professional", "formal", "high-end", "business" >> ],
      nature |->
        [ name |-> "natural",
          base_prompt |-> "natural landscape;ecological environment",
          negative_prompt |-> "artificial;damaged;polluted;unnatural",
          photography_style |-> "nature photography;ecological record",
          lighting |-> "natural light;real environment",
          quality_keywords |-> << "natural", "ecological", "real", "harmonious" >> ],
      portrait |->
        [ name |-> "portrait",
          base_prompt |-> "character portrait;emotional expression",
          negative_prompt |-> "blurry;distorted;unnatural expression",
          photography_style |-> "portrait photography;emotion captured",
          lighting |-> "portrait lighting;expression emphasised",
          quality_keywords |-> << "lively", "natural", "spirited", "emotionally rich" >> ],
      abstract |->
        [ name |-> "abstract",
          base_prompt |-> "abstract art;conceptual expression",
          negative_prompt |-> "figurative;realistic;mediocre;uncreative",
          photography_style |-> "abstract rendering;concept art",
          lighting |-> "creative light effects;abstract rendering",
          quality_keywords |-> << "abstract", "conceptual", "innovative", "unique" >> ],
      cartoon |->
        [ name |-> "cartoon",
          base_prompt |-> "cartoon anime;cute style",
          negative_prompt |-> "realistic;gloomy;adult content",
          photography_style |-> "cartoon style;anime rendering",
          lighting |-> "bright and playful;cartoon light effects",
          quality_keywords |-> << "cute", "playful", "vivid colours", "fun" >> ] ]

\* _load_platform_configs: the platform registry, keyed by platform identifier
PlatformConfigs ==
    [
      general |->
        [ name |-> "general purpose",
          suffix |-> "",
          preferred_sizes |-> << "1328*1328", "1664*928", "1472*1140" >>,
          style_modifier |-> "" ],
      xiaohongshu |->
        [ name |-> "Xiaohongshu",
          suffix |-> "fit for Xiaohongshu sharing;social media style",
          preferred_sizes |-> << "1472*1140", "1328*1328", "1140*1472" >>,
          style_modifier |-> "everyday;approachable" ],
      weibo |->
        [ name |-> "Weibo",
          suffix |-> "fit for Weibo sharing;highly topical",
          preferred_sizes |-> << "1664*928", "1328*1328" >>,
          style_modifier |-> "topical;eye-catching" ],
      douyin |->
        [ name |-> "Douyin",
          suffix |-> "fit for Douyin short video;vertical screen optimised",
          preferred_sizes |-> << "928*1664", "1140*1472" >>,
          style_modifier |-> "dynamic;youthful" ],
      kuaishou |->
        [ name |-> "Kuaishou",
          suffix |-> "fit for Kuaishou platform;down-to-earth style",
          preferred_sizes |-> << "928*1664", "1328*1328" >>,
          style_modifier |-> "real;down-to-earth" ],
      instagram |->
        [ name |-> "Instagram",
          suffix |-> "Instagram style, international aesthetic",
          preferred_sizes |-> << "1328*1328", "1140*1472" >>,
          style_modifier |-> "international;modern feel" ],
      pinterest |->
        [ name |-> "Pinterest",
          suffix |-> "Pinterest optimized, visual impact",
          preferred_sizes |-> << "1140*1472", "928*1664" >>,
          style_modifier |-> "visual impact;creative" ],
      tiktok |->
        [ name |-> "TikTok",
          suffix |-> "TikTok ready, vertical format",
          preferred_sizes |-> << "928*1664", "1140*1472" >>,
          style_modifier |-> "young trend;international" ] ]

\* the names of the ContentStyle type
ContentStyle ==
    { "general", "lifestyle", "food", "fashion", "travel", "beauty", "tech",
      "art", "traditional", "business", "nature", "portrait", "abstract",
      "cartoon" }

\* the names of the Platform type
Platform ==
    { "general", "xiaohongshu", "weibo", "douyin", "kuaishou", "instagram",
      "twitter", "facebook", "pinterest", "tiktok" }

\* the fields self._style_templates and self._platform_configs of the
\* service: dicts, each held as its mapping d and the insertion order keys
VARIABLES style_templates, platform_configs

\* the values __init__ gives the two fields
LoadedStyleTemplates == [keys |-> StyleKeys, d |-> StyleTemplates]
LoadedPlatformConfigs == [keys |-> PlatformKeys, d |-> PlatformConfigs]

\* mutant of RegistryAfterRequest: get_style_info stores the general entry
\* under a key it did not find
RegistryCachesUnknownKey(registry, req) ==
    LET params == IF req.t = "object"
                  THEN DictGet(req.d, "params", Obj(EmptyDict)) ELSE Null
        arguments == IF params.t = "object"
                     THEN DictGet(params.d, "arguments", Obj(EmptyDict)) ELSE Null
        style == IF arguments.t = "object"
                 THEN DictGet(arguments.d, "style", Null) ELSE Null
    IN  IF /\ req.t = "object"
           /\ DictGet(req.d, "method", Null) = Str("tools/call")
           /\ params.t = "object"
           /\ DictGet(params.d, "name", Null) = Str("get_style_info")
           /\ style.t = "str" /\ style.s \notin DOMAIN registry.d
        THEN [ keys |-> Append(registry.keys, style.s),
               d |-> [ k \in DOMAIN registry.d \cup { style.s } |->
                       IF k \in DOMAIN registry.d THEN registry.d[k]
                       ELSE registry.d["general"] ] ]
        ELSE registry

\* what handling a request leaves of a registry: handle_mcp_request,
\* handle_tool_call, generate_image and the composer read the two dicts
\* with get, in, [], keys() and items() and build new lists and dicts from
\* what they read; none assigns the fields or an entry
RegistryAfterRequest(registry, req) == registry

\* `style in self._style_templates`
InStyleTemplates(style) == style.t = "str" /\ style.s \in DOMAIN style_templates.d

\* `platform in self._platform_configs`
InPlatformConfigs(platform) ==
    platform.t = "str" /\ platform.s \in DOMAIN platform_configs.d

\* mutant of StyleTemplate: no fallback, an unknown key gets an empty
\* template
StyleTemplateNoFallback(style) ==
    IF InStyleTemplates(style) THEN style_templates.d[style.s]
    ELSE [ name |-> "", base_prompt |-> "", negative_prompt |-> "",
           photography_style |-> "", lighting |-> "", quality_keywords |-> << >> ]

\* self._style_templates.get(style, self._style_templates["general"])
StyleTemplate(style) ==
    IF InStyleTemplates(style) THEN style_templates.d[style.s]
    ELSE style_templates.d["general"]

\* self._platform_configs.get(platform, self._platform_configs["general"])
PlatformConfig(platform) ==
    IF InPlatformConfigs(platform) THEN platform_configs.d[platform.s]
    ELSE platform_configs.d["general"]

\* -------------------------------------------------------- prompt composer
\* the full-width comma (U+FF0C) the composer joins with, rendered in ASCII
FWComma == ";"

\* sep.join(parts)
RECURSIVE Join(_, _)
Join(sep, parts) ==
    IF parts = << >> THEN ""
    ELSE IF Len(parts) = 1 THEN parts[1]
    ELSE parts[1] \o sep \o Join(sep, Tail(parts))

\* sub in s
Contains(s, sub) ==
    \E i \in 1..(Len(s) - Len(sub) + 1) : SubSeq(s, i, i + Len(sub) - 1) = sub

\* [x] if x else []
IfNonEmpty(x) == IF x # "" THEN << x >> ELSE << >>

\* mutant of EnhancedParts: the base fragment is appended whether or not
\* the raw prompt holds it
EnhancedPartsAlwaysBase(prompt, style, platform, custom_enhancement) ==
    LET style_template == StyleTemplate(style)
        platform_config == PlatformConfig(platform)
    IN  << prompt.s >>
        \o (IF Truthy(custom_enhancement)
            THEN << custom_enhancement.s >> ELSE << >>)
        \o IfNonEmpty(style_template.base_prompt)
        \o IfNonEmpty(style_template.photography_style)
        \o IfNonEmpty(style_template.lighting)
        \o style_template.quality_keywords
        \o IfNonEmpty(platform_config.suffix)
        \o IfNonEmpty(platform_config.style_modifier)

\* _enhance_prompt with enhancement enabled: the list enhanced_parts
EnhancedParts(prompt, style, platform, custom_enhancement) ==
    LET style_template == StyleTemplate(style)
        platform_config == PlatformConfig(platform)
    IN  << prompt.s >>
        \o (IF Truthy(custom_enhancement)
            THEN << custom_enhancement.s >> ELSE << >>)
        \o (IF style_template.base_prompt # ""
               /\ ~Contains(prompt.s, style_template.base_prompt)
            THEN << style_template.base_prompt >> ELSE << >>)
        \o IfNonEmpty(style_template.photography_style)
        \o IfNonEmpty(style_template.lighting)
        \o style_template.quality_keywords
        \o IfNonEmpty(platform_config.suffix)
        \o IfNonEmpty(platform_config.style_modifier)

\* mutant of enhance_prompt: the enable_enhancement flag is not looked at
enhance_prompt_ignores_flag(prompt, style, platform, enable_enhancement, custom_enhancement) ==
    Join(FWComma, EnhancedParts(prompt, style, platform, custom_enhancement))

\* _enhance_prompt
enhance_prompt(prompt, style, platform, enable_enhancement, custom_enhancement) ==
    IF ~Truthy(enable_enhancement) THEN prompt.s
    ELSE Join(FWComma, EnhancedParts(prompt, style, platform, custom_enhancement))

\* mutant of get_negative_prompt: the style's fragment comes first
get_negative_prompt_style_first(style, custom_negative) ==
    LET style_template == StyleTemplate(style)
        negative_parts ==
            IfNonEmpty(style_template.negative_prompt)
            \o (IF Truthy(custom_negative) THEN << custom_negative.s >> ELSE << >>)
    IN  Join(FWComma, negative_parts)

\* _get_negative_prompt
get_negative_prompt(style, custom_negative) ==
    LET style_template == StyleTemplate(style)
        negative_parts ==
            (IF Truthy(custom_negative) THEN << custom_negative.s >> ELSE << >>)
            \o IfNonEmpty(style_template.negative_prompt)
    IN  Join(FWComma, negative_parts)

\* --------------------------------------------------------- JSON-RPC shapes
\* the success envelope of handle_mcp_request
ResultEnvelope(request_id, result) ==
    [jsonrpc |-> "2.0", id |-> request_id, result |-> result]

\* the error envelopes of handle_mcp_request
ErrorEnvelope(request_id, code, message) ==
    [jsonrpc |-> "2.0", id |-> request_id,
     error |-> [code |-> code, message |-> message]]

MethodNotFound == -32601
InternalError == -32603

\* a tool result holding one text block
TextContent(text) == [content |-> << [type |-> "text", text |-> text] >>]

\* a tool result holding one text block, flagged as an error
ErrorContent(text) ==
    [content |-> << [type |-> "text", text |-> text] >>, isError |-> TRUE]

\* json.dumps(value): the text is kept as the value it serialises
JsonText(value) == [fmt |-> "json", value |-> value]
\* a plain message text
PlainText(s) == [fmt |-> "plain", s |-> s]

\* mutant of handle_initialize: the version the client asks for is echoed
handle_initialize_negotiates(params) ==
    [protocolVersion |->
         IF params.t = "object" /\ "protocolVersion" \in DOMAIN params.d
         THEN params.d.protocolVersion.s ELSE "2025-03-26",
     capabilities |-> [tools |-> EmptyDict],
     serverInfo |-> [name |-> "qwen-image-mcp", version |-> "1.0.0"]]

\* handle_initialize
handle_initialize(params) ==
    [protocolVersion |-> "2025-03-26",
     capabilities |-> [tools |-> EmptyDict],
     serverInfo |-> [name |-> "qwen-image-mcp", version |-> "1.0.0"]]

\* handle_tools_list: the names of the tool descriptors, and the enums the
\* generate_image schema advertises
handle_tools_list ==
    [tools |-> << "generate_image", "list_styles", "list_platforms",
                  "get_style_info" >>,
     style_enum |-> style_templates.keys,
     platform_enum |-> platform_configs.keys]

\* ---------------------------------------------------------- generate_image
\* the parameters of generate_image
GenParams ==
    { "prompt", "api_key", "style", "platform", "size", "model", "call_mode",
      "prompt_extend", "watermark", "negative_prompt", "seed",
      "enable_enhancement", "custom_enhancement", "save_local", "output_dir" }

\* the defaults of generate_image's parameters (prompt has none)
GenDefaults ==
    [ api_key |-> Null, style |-> Str("general"), platform |-> Str("general"),
      size |-> Str("1328*1328"), model |-> Str("qwen-image"),
      call_mode |-> Str("multimodal"), prompt_extend |-> Bool(TRUE),
      watermark |-> Bool(FALSE), negative_prompt |-> Null, seed |-> Null,
      enable_enhancement |-> Bool(TRUE), custom_enhancement |-> Null,
      save_local |-> Bool(TRUE), output_dir |-> Str("generated_images") ]

\* mutant of BindArguments: fields that are no parameter are dropped
BindArgumentsDropsUnknown(arguments) ==
    IF arguments.t # "object"
    THEN Raise("generate_image() argument after ** must be a mapping, not "
               \o TypeName(arguments))
    ELSE IF "prompt" \notin DOMAIN arguments.d
    THEN Raise("generate_image() missing 1 required positional argument: 'prompt'")
    ELSE Ok([ k \in GenParams |->
              IF k \in DOMAIN arguments.d THEN arguments.d[k] ELSE GenDefaults[k] ])

\* the call generate_image(**arguments): the bound parameters, or the
\* TypeError Python raises when binding them
BindArguments(arguments) ==
    IF arguments.t # "object"
    THEN Raise("generate_image() argument after ** must be a mapping, not "
               \o TypeName(arguments))
    ELSE IF DOMAIN arguments.d \ GenParams # {}
    THEN Raise("generate_image() got an unexpected keyword argument")
    ELSE IF "prompt" \notin DOMAIN arguments.d
    THEN Raise("generate_image() missing 1 required positional argument: 'prompt'")
    ELSE Ok([ k \in GenParams |->
              IF k \in DOMAIN arguments.d THEN arguments.d[k] ELSE GenDefaults[k] ])

\* mutant of get_api_key: a missing key is passed on instead of raising
get_api_key_unchecked(provided_key, env) == Ok(PyOr(provided_key, env))

\* _get_api_key(provided_key) with os.environ.get("DASHSCOPE_API_KEY") = env
get_api_key(provided_key, env) ==
    LET api_key == PyOr(provided_key, env)
    IN  IF ~Truthy(api_key)
        THEN Raise("API key not provided; set it by argument or DASHSCOPE_API_KEY")
        ELSE Ok(api_key)

\* mutant of SetEnviron: the variable is set only when it has no value
SetEnvironIfUnset(env, api_key) == IF Truthy(env) THEN env ELSE api_key

\* os.environ["DASHSCOPE_API_KEY"] = api_key: the value of the variable
\* after the assignment, env being its value before
SetEnviron(env, api_key) == api_key

\* generation_time: a float whose value the model does not follow
GenerationTime == [t |-> "float"]

\* mutant of FailedResult: the message is the bare exception text
FailedResultBareMessage(e) ==
    [ success |-> FALSE, image_url |-> Null, local_path |-> Null,
      error_message |-> Str(e),
      generation_time |-> GenerationTime, config_used |-> Null ]

\* the ImageGenerationResult the except branch of generate_image builds
FailedResult(e) ==
    [ success |-> FALSE, image_url |-> Null, local_path |-> Null,
      error_message |-> Str("generate image failed: " \o e),
      generation_time |-> GenerationTime, config_used |-> Null ]

\* config_used: the echo of the resolved configuration
ConfigUsed(p) ==
    Obj([ k \in { "prompt", "style", "platform", "size", "model", "call_mode",
                  "prompt_extend", "watermark", "seed" } |-> p[k] ]
        @@ [ enhanced_prompt |->
                 Str(enhance_prompt(p.prompt, p.style, p.platform,
                                    p.enable_enhancement, p.custom_enhancement)),
             negative_prompt |->
                 Str(get_negative_prompt(p.style, p.negative_prompt)) ])

\* the ImageGenerationResult the try branch of generate_image returns
SuccessResult(p, image_url, local_path) ==
    [ success |-> TRUE, image_url |-> image_url, local_path |-> local_path,
      error_message |-> Null,
      generation_time |-> GenerationTime, config_used |-> ConfigUsed(p) ]

\* mutant of GenerateImageContent: config_used is written also when it is
\* None
GenerateImageContentAlwaysConfig(result) ==
    LET response_data ==
            [ success |-> Bool(result.success), image_url |-> result.image_url,
              local_path |-> result.local_path,
              generation_time |-> result.generation_time,
              config_used |-> result.config_used ]
        em == IF Truthy(result.error_message)
              THEN [error_message |-> result.error_message] ELSE EmptyDict
    IN  TextContent(JsonText(Obj(response_data @@ em)))

\* handle_tool_call, generate_image branch: the text block built from result
GenerateImageContent(result) ==
    LET response_data ==
            [ success |-> Bool(result.success), image_url |-> result.image_url,
              local_path |-> result.local_path,
              generation_time |-> result.generation_time ]
        em == IF Truthy(result.error_message)
              THEN [error_message |-> result.error_message] ELSE EmptyDict
        cu == IF Truthy(result.config_used)
              THEN [config_used |-> result.config_used] ELSE EmptyDict
    IN  TextContent(JsonText(Obj(response_data @@ em @@ cu)))

\* mutant of ToolCallFailed: the block is not flagged as an error
ToolCallFailedUnflagged(e) == TextContent(PlainText("tool call failed: " \o e))

\* handle_tool_call, except branch
ToolCallFailed(e) == ErrorContent(PlainText("tool call failed: " \o e))

\* str(v), as far as the messages of the dispatcher show values
PyStr(v) ==
    CASE v.t = "str" -> v.s
      [] v.t = "null" -> "None"
      [] v.t = "bool" -> IF v.b THEN "True" ELSE "False"
      [] OTHER -> "<" \o TypeName(v) \o ">"

\* the AttributeError of v.get(...) on a value that is no dict
NoGetAttribute(v) == "'" \o TypeName(v) \o "' object has no attribute 'get'"

\* ------------------------------------------------------- handle_tool_call
\* a dict comprehension over a registry: the mapping, and the order in
\* which json.dumps writes its keys
OrderedObj(keys, d) == [t |-> "object", d |-> d, keys |-> keys]

\* list_styles branch: key -> display name, in registry order
ListStyles ==
    TextContent(JsonText(
        OrderedObj(style_templates.keys,
                   [ k \in SeqRange(style_templates.keys) |->
                       style_templates.d[k].name ])))

\* list_platforms branch: key -> display name, in registry order
ListPlatforms ==
    TextContent(JsonText(
        OrderedObj(platform_configs.keys,
                   [ k \in SeqRange(platform_configs.keys) |->
                       platform_configs.d[k].name ])))

\* mutant of GetStyleInfo: an unknown style gets the general template
GetStyleInfoFallsBack(arguments) ==
    IF arguments.t # "object" THEN ToolCallFailed(NoGetAttribute(arguments))
    ELSE TextContent(JsonText(Obj(StyleTemplate(DictGet(arguments.d, "style", Null)))))

\* get_style_info branch
GetStyleInfo(arguments) ==
    IF arguments.t # "object" THEN ToolCallFailed(NoGetAttribute(arguments))
    ELSE
        LET style == DictGet(arguments.d, "style", Null)
        IN  IF InStyleTemplates(style)
            THEN TextContent(JsonText(Obj(style_templates.d[style.s])))
            ELSE ErrorContent(PlainText("style not found: " \o PyStr(style)))

\* mutant of UnknownTool: the block is not flagged as an error
UnknownToolUnflagged(name) == TextContent(PlainText("unknown tool: " \o PyStr(name)))

\* the else branch: no tool of that name
UnknownTool(name) == ErrorContent(PlainText("unknown tool: " \o PyStr(name)))

\* outcomes of a step of the dispatcher: a response to print, an exception
\* that leaves handle_mcp_request, or a suspension on the provider call
Reply(response, log) == [kind |-> "reply", response |-> response, log |-> log]
Escape(log) == [kind |-> "raise", log |-> log]
Suspend(api_key, enhanced_prompt, negative_prompt) ==
    [ kind |-> "suspend", api_key |-> api_key,
      enhanced_prompt |-> enhanced_prompt, negative_prompt |-> negative_prompt ]

\* generate_image up to the provider call: binding of the arguments,
\* credential resolution, composition of the prompt and of the negative
\* prompt; a failure is the tool result it ends in
GenerateImageStart(arguments, env) ==
    LET bound == BindArguments(arguments)
    IN  IF ~bound.ok
        THEN [done |-> TRUE, result |-> ToolCallFailed(bound.exc), log |-> {"tool"}]
        ELSE
            LET key == get_api_key(bound.value.api_key, env)
            IN  IF ~key.ok
                THEN [done |-> TRUE,
                      result |-> GenerateImageContent(FailedResult(key.exc)),
                      log |-> {"generate"}]
                ELSE [done |-> FALSE, api_key |-> key.value,
                      enhanced_prompt |->
                          Str(enhance_prompt(bound.value.prompt, bound.value.style,
                                             bound.value.platform,
                                             bound.value.enable_enhancement,
                                             bound.value.custom_enhancement)),
                      negative_prompt |->
                          Str(get_negative_prompt(bound.value.style,
                                                  bound.value.negative_prompt))]

\* handle_tool_call for the tools that make no provider call
ToolCallSync(name, arguments) ==
    IF name = Str("list_styles") THEN ListStyles
    ELSE IF name = Str("list_platforms") THEN ListPlatforms
    ELSE IF name = Str("get_style_info") THEN GetStyleInfo(arguments)
    ELSE UnknownTool(name)

\* ----------------------------------------------------- handle_mcp_request
\* mutant of UnknownMethod: the reply does not echo the request id
UnknownMethodDropsId(request_id, method) ==
    ErrorEnvelope(Null, MethodNotFound, "unknown method: " \o PyStr(method))

\* the reply to a method that is none of the three
UnknownMethod(request_id, method) ==
    ErrorEnvelope(request_id, MethodNotFound, "unknown method: " \o PyStr(method))

\* the reply of the except branch of handle_mcp_request
InternalFailure(request_id, e) ==
    ErrorEnvelope(request_id, InternalError, "internal error: " \o e)

\* handle_mcp_request up to its first suspension. request.get(...) on a
\* value that is no dict raises before the try block is entered.
handle_mcp_request(request, env) ==
    IF request.t # "object" THEN Escape({"loop"})
    ELSE
        LET method == DictGet(request.d, "method", Null)
            params == DictGet(request.d, "params", Obj(EmptyDict))
            request_id == DictGet(request.d, "id", Null)
        IN  IF method = Str("initialize")
            THEN Reply(ResultEnvelope(request_id, handle_initialize(params)), {})
            ELSE IF method = Str("tools/list")
            THEN Reply(ResultEnvelope(request_id, handle_tools_list), {})
            ELSE IF method = Str("tools/call")
            THEN
                IF params.t # "object"
                THEN Reply(InternalFailure(request_id, NoGetAttribute(params)),
                           {"request"})
                ELSE
                    LET tool_name == DictGet(params.d, "name", Null)
                        tool_args == DictGet(params.d, "arguments", Obj(EmptyDict))
                    IN  IF tool_name = Str("generate_image")
                        THEN
                            LET g == GenerateImageStart(tool_args, env)
                            IN  IF g.done
                                THEN Reply(ResultEnvelope(request_id, g.result), g.log)
                                ELSE Suspend(g.api_key, g.enhanced_prompt,
                                             g.negative_prompt)
                        ELSE
                            LET r == ToolCallSync(tool_name, tool_args)
                            IN  Reply(ResultEnvelope(request_id, r),
                                      IF tool_name = Str("get_style_info")
                                         /\ tool_args.t # "object"
                                      THEN {"tool"} ELSE {})
            ELSE Reply(UnknownMethod(request_id, method), {})

\* ------------------------------------------------------ result materializer
\* the texts of exceptions raised by the provider library, the HTTP client
\* and the file system (a text may be empty)
ExcTexts == { "", "connection reset" }

\* s.replace(from, to) for a one-character from
RECURSIVE Replace(_, _, _)
Replace(s, from, to) ==
    IF s = "" THEN ""
    ELSE (IF SubSeq(s, 1, 1) = from THEN to ELSE SubSeq(s, 1, 1))
         \o Replace(SubSeq(s, 2, Len(s)), from, to)

\* s[:n]
Prefix(s, n) == SubSeq(s, 1, IF Len(s) < n THEN Len(s) ELSE n)

\* number of characters of the prompt kept in a file name
DescLen == 10

\* length of the random suffix of a file name
UniqueIdLen == 8

\* _generate_filename, with the clock reading and the uuid4 text drawn
generate_filename(prompt, style, size, timestamp, uuid) ==
    LET size_str == Replace(size, "*", "x")
        unique_id == Prefix(uuid, UniqueIdLen)
        desc == Replace(Replace(Replace(Prefix(prompt, DescLen), " ", "_"),
                                FWComma, "_"), ",", "_")
    IN  "qwen_" \o timestamp \o "_" \o size_str \o "_" \o style \o "_"
        \o desc \o "_" \o unique_id \o ".png"

\* os.path.join(output_dir, filename)
PathJoin(output_dir, filename) == output_dir \o "/" \o filename

\* how _download_image can end: the file written, a non-2xx status, the
\* directory or file not creatable, the write failing after the file exists
DownloadOutcomes == { "ok", "http", "io_open", "io_write" }

\* _download_image: the path returned or the exception raised
download_image(filename, output_dir, o, e) ==
    CASE o = "ok" -> Ok(Str(PathJoin(output_dir, filename)))
      [] o = "http" -> Raise("404 Client Error: Not Found for url")
      [] OTHER -> Raise(e)

\* whether _download_image leaves a file on disk
DownloadCreatesFile(o) == o \in { "ok", "io_write" }

\* --------------------------------------------------------- provider gateway
\* the URL the provider returns for a generated image
ProviderUrl == Str("https://dashscope.example/result/1.png")

\* what _call_qwen_api passes to the provider: the convention, the prompt,
\* and the negative prompt when it is not empty
ProviderRequest(call_mode, prompt, negative_prompt) ==
    [ op |-> "call", call_mode |-> call_mode, prompt |-> prompt ]
    @@ (IF Truthy(negative_prompt)
        THEN [negative_prompt |-> negative_prompt] ELSE EmptyDict)

\* what _download_image asks of the HTTP client
DownloadRequest(url) == [ op |-> "download", url |-> url ]

\* how one blocking provider call can end: a success response, a response
\* with another status, an exception of the client library, a success
\* response without the image where generate_image looks for it
CallOutcomes == { "ok", "status", "raise", "shape" }

\* the statuses ImageSynthesis.fetch can report for a job
JobStatuses == { "SUCCEEDED", "FAILED", "PENDING", "RUNNING", "UNKNOWN" }

\* _call_qwen_api in multimodal or sync mode followed by the extraction of
\* the image URL in generate_image: the URL, or the exception raised
call_qwen_api(call_mode, o, e) ==
    CASE o = "ok" -> Ok(ProviderUrl)
      [] o = "status" ->
            IF call_mode = Str("multimodal")
            THEN Raise("multimodal API call failed: code - message")
            ELSE Raise("sync API call failed: code - message")
      [] o = "raise" -> Raise(e)
      [] OTHER -> Raise("list index out of range")

\* the logger.error sites a failed provider call passes
CallLog(o) == IF o \in { "status", "raise" } THEN { "api", "generate" } ELSE { "generate" }

\* how one ImageSynthesis.fetch can end: a job status, an exception of the
\* client library, status SUCCEEDED without the image where generate_image
\* looks for it
FetchOutcomes ==
    { [kind |-> "status", status |-> st] : st \in JobStatuses }
    \cup { [kind |-> "raise", e |-> e] : e \in ExcTexts }
    \cup { [kind |-> "shape", status |-> "SUCCEEDED"] }

\* mutant of PollStep: every status but the two of a running job ends
\* the polling with the response returned
PollStepReturnsOnFailed(task_status) ==
    IF task_status \in { "SUCCEEDED", "FAILED" } THEN "return" ELSE "sleep"

\* mutant of PollStep: a status that is neither of a running job nor
\* terminal makes the loop give up
PollStepGivesUpOnUnknown(task_status) ==
    IF task_status = "SUCCEEDED" THEN "return"
    ELSE IF task_status \in { "PENDING", "RUNNING" } THEN "sleep"
    ELSE "raise"

\* one round of the polling loop of _call_qwen_api in async mode:
\* "return", "raise" or "sleep"
PollStep(task_status) ==
    IF task_status = "SUCCEEDED" THEN "return"
    ELSE IF task_status = "FAILED" THEN "raise"
    ELSE "sleep"

\* ------------------------------------------------------------------ inputs
\* the request ids clients send (a request may also carry none)
IdParts == { EmptyDict, [id |-> Str("7")] }

\* arguments objects sent to generate_image: with and without the prompt,
\* without a key in each call mode and with and without the download,
\* with a key in the default and the async mode, with a field
\* generate_image does not know
GenArgDicts ==
    { [prompt |-> Str("a red bicycle")] @@ m :
        m \in { EmptyDict, [call_mode |-> Str("sync")], [call_mode |-> Str("async")],
                [save_local |-> Bool(FALSE)],
                [call_mode |-> Str("async"), save_local |-> Bool(FALSE)] } }
    \cup { [prompt |-> Str("a red bicycle"), api_key |-> Str("sk-arg")] @@ m :
             m \in { EmptyDict, [call_mode |-> Str("async")] } }
    \cup { EmptyDict,
           [call_mode |-> Str("sync")],
           [prompt |-> Str("a red bicycle"), bogus |-> Str("x")] }

\* arguments objects sent to get_style_info
StyleArgDicts ==
    { EmptyDict, [style |-> Str("food")], [style |-> Str("steampunk")] }

\* params.arguments of a generate_image call: any JSON value, or none
GenArgumentParts ==
    { EmptyDict, [arguments |-> Null], [arguments |-> Arr(<< >>)] }
    \cup { [arguments |-> Obj(d)] : d \in GenArgDicts }

\* params.arguments of the other calls: any JSON value, or none
OtherArgumentParts ==
    { EmptyDict, [arguments |-> Null], [arguments |-> Arr(<< >>)] }
    \cup { [arguments |-> Obj(d)] : d \in StyleArgDicts }

\* params.name of the other calls, when present
OtherNameParts ==
    { EmptyDict, [name |-> Null] } \cup
    { [name |-> Str(n)] :
        n \in { "list_styles", "list_platforms", "get_style_info", "delete_image" } }

\* tools/call requests that name generate_image
GenerateRequests ==
    { Obj([method |-> Str("tools/call"), id |-> Str("7"),
           params |-> Obj([name |-> Str("generate_image")] @@ a)]) :
        a \in GenArgumentParts }

\* the other tools/call requests: params is absent or not an object (with
\* and without an id), or an object naming a tool; the tools that read
\* no argument are called without arguments and with null
OtherToolRequests ==
    { Obj([method |-> Str("tools/call")] @@ i @@ pp) :
        i \in IdParts,
        pp \in { EmptyDict, [params |-> Null], [params |-> Arr(<< >>)] } }
    \cup UNION {
            { Obj([method |-> Str("tools/call"), id |-> Str("7"),
                   params |-> Obj(n @@ a)]) :
                a \in IF n = [name |-> Str("get_style_info")]
                      THEN OtherArgumentParts
                      ELSE { EmptyDict, [arguments |-> Null] } } :
            n \in OtherNameParts }

\* requests with another method, or none
OtherRequests ==
    { Obj(m @@ i @@ pp) :
        m \in { EmptyDict, [method |-> Str("initialize")],
                [method |-> Str("tools/list")], [method |-> Str("ping")] },
        i \in IdParts,
        pp \in { EmptyDict, [params |-> Null] } }

\* initialize and tools/list requests whose params is a JSON value of
\* another type, or an object with fields
IntrospectionRequests ==
    { Obj([method |-> Str(m), id |-> Str("7"), params |-> pp]) :
        m \in { "initialize", "tools/list" },
        pp \in { Arr(<< >>), Num(42), Str("x"),
                 Obj([protocolVersion |-> Str("2024-11-05")]) } }

\* the JSON values a line can parse to
Requests ==
    { Null, Arr(<< >>), Num(42), Str("initialize") }
    \cup OtherRequests \cup IntrospectionRequests \cup OtherToolRequests
    \cup GenerateRequests

\* what sys.stdin.readline() can return: end of input, a line of white
\* space, a line json.loads rejects, a line json.loads accepts
Lines ==
    { [kind |-> "eof"], [kind |-> "blank"], [kind |-> "badjson"] }
    \cup { [kind |-> "json", value |-> v] : v \in Requests }

\* style arguments of generate_image: none, every registered key, keys no
\* registry holds, the empty key, null
ComposerStyles ==
    { EmptyDict, [style |-> Null] }
    \cup { [style |-> Str(k)] : k \in SeqRange(StyleKeys) \cup { "steampunk", "" } }

\* platform arguments of generate_image: none, every registered key, the
\* two keys of the Platform type that have no entry, an unknown key
ComposerPlatforms ==
    { EmptyDict }
    \cup { [platform |-> Str(k)] :
             k \in SeqRange(PlatformKeys) \cup { "twitter", "facebook", "mastodon" } }

\* raw prompts: plain, empty, holding the base fragment of a style
ComposerPrompts ==
    { [prompt |-> Str(x)] :
        x \in { "a red bicycle", "", "a high quality picture of tea",
                "food photography;refined plating" } }

\* custom_enhancement and negative_prompt arguments: none, null, empty, a
\* text (for custom_enhancement also one holding the base fragment of a
\* style)
ComposerCustoms ==
    { EmptyDict, [custom_enhancement |-> Str("")],
      [custom_enhancement |-> Str("warm tones")],
      [custom_enhancement |-> Str("high quality picture in warm tones")] }
ComposerNegatives ==
    { EmptyDict, [negative_prompt |-> Null], [negative_prompt |-> Str("")],
      [negative_prompt |-> Str("blurry")] }

\* enable_enhancement arguments: none (enabled), true, false
ComposerFlags ==
    { EmptyDict, [enable_enhancement |-> Bool(FALSE)] }

\* arguments objects of generate_image calls that differ in what the
\* composer reads; the image is not saved
ComposerArgDicts ==
    { [save_local |-> Bool(FALSE)] @@ x @@ st @@ pl @@ cu @@ fl :
        x \in ComposerPrompts, st \in ComposerStyles, pl \in ComposerPlatforms,
        cu \in ComposerCustoms, fl \in ComposerFlags }
    \cup { [prompt |-> Str("a red bicycle"), save_local |-> Bool(FALSE)]
             @@ st @@ ng @@ fl :
             st \in ComposerStyles, ng \in ComposerNegatives, fl \in ComposerFlags }

\* the generate_image calls of the composer's specification
ComposerRequests ==
    { Obj([method |-> Str("tools/call"), id |-> Str("7"),
           params |-> Obj([name |-> Str("generate_image"),
                           arguments |-> Obj(d)])]) :
        d \in ComposerArgDicts \cup GenArgDicts }

\* the clock readings a file name is built from: the requests of a run
\* are handled within one second
Timestamps == { "20260101_120000" }

\* the texts of the values uuid4 returns: two that agree on their first
\* eight characters, one that does not
Uuids ==
    { "1a2b3c4d-0000-4000-8000-000000000000",
      "1a2b3c4d-ffff-4fff-bfff-ffffffffffff",
      "9f8e7d6c-0000-4000-8000-000000000000" }

\* ------------------------------------------------------------------- state
VARIABLES
    pc,        \* where run_mcp_server is: "idle" (at readline), "handle",
               \* "provider", "poll", "sleep", "download", "stopped"
    line,      \* what the last line read was: "none" before the first,
               \* "eof", "blank", "badjson", or the type of the JSON value
    nread,     \* number of lines read
    nparsed,   \* number of lines read that parsed as JSON
    request,   \* the request being handled (NoRequest when none)
    frame,     \* locals of the suspended generate_image call
    out,       \* the lines written to standard output
    outAt,     \* for each line of out, the value of nparsed when written
    environ,   \* os.environ["DASHSCOPE_API_KEY"] (Null when unset)
    files,     \* number of files created under output_dir
    effects,   \* provider submissions and downloads made for the request
               \* last read
    logged     \* logger.error sites hit for the request last read

vars ==
    << pc, line, nread, nparsed, request, frame, out, outAt, environ, files,
       effects, logged, style_templates, platform_configs >>

\* no request is being handled
NoRequest == [t |-> "none"]

\* no generate_image call is running
NoFrame ==
    [ api_key |-> Null, enhanced_prompt |-> Null, negative_prompt |-> Null,
      image_url |-> Null, polls |-> 0 ]

\* the process starts with or without the credential variable
Init ==
    /\ pc = "idle"
    /\ line = "none"
    /\ nread = 0
    /\ nparsed = 0
    /\ request = NoRequest
    /\ frame = NoFrame
    /\ out = << >>
    /\ outAt = << >>
    /\ environ \in { Null, Str("sk-env") }
    /\ files = 0
    /\ effects = << >>
    /\ logged = {}
    /\ style_templates = LoadedStyleTemplates
    /\ platform_configs = LoadedPlatformConfigs

\* the loop has read blank lines and then a generate_image call, which it
\* is about to hand to handle_mcp_request; no further line will come
ComposerInit ==
    /\ pc = "handle"
    /\ line = "object"
    /\ nread = MaxLines
    /\ nparsed = 1
    /\ request \in ComposerRequests
    /\ frame = NoFrame
    /\ out = << >>
    /\ outAt = << >>
    /\ environ = Str("sk-env")
    /\ files = 0
    /\ effects = << >>
    /\ logged = {}
    /\ style_templates = LoadedStyleTemplates
    /\ platform_configs = LoadedPlatformConfigs

\* ------------------------------------------------ the request being handled
ReqParams == DictGet(request.d, "params", Obj(EmptyDict))
ReqId == DictGet(request.d, "id", Null)
ToolArgs == DictGet(ReqParams.d, "arguments", Obj(EmptyDict))
\* the parameters of the running generate_image call
Bound == BindArguments(ToolArgs).value

\* ----------------------------------------------------------- run_mcp_server
\* mutant of AfterLine: an unparsable line ends the loop
AfterLineBreakOnBadJson(kind) ==
    CASE kind = "eof" -> "stopped"
      [] kind = "blank" -> "idle"
      [] kind = "badjson" -> "stopped"
      [] OTHER -> "handle"

\* where the loop goes after a line: break on end of input, continue on a
\* blank or unparsable line, handle_mcp_request on a parsed one
AfterLine(kind) ==
    CASE kind = "eof" -> "stopped"
      [] kind = "blank" -> "idle"
      [] kind = "badjson" -> "idle"
      [] OTHER -> "handle"

\* mutant of AfterLoopException: the exception ends the loop
LoopExceptionStops == "stopped"

\* where the loop goes after its except branch: the next iteration
AfterLoopException == "idle"

\* print(json.dumps(response)); sys.stdout.flush(): one line, then the next
\* iteration of the loop
WriteLine(response) ==
    /\ out' = Append(out, response)
    /\ outAt' = Append(outAt, nparsed)
    /\ pc' = "idle"
    /\ request' = NoRequest
    /\ frame' = NoFrame

\* mutant of AtReadline: the next line is also read while a request sleeps
ReadsWhileSleeping == pc \in { "idle", "sleep" }

\* readline is awaited at the top of the loop only
AtReadline == pc = "idle"

\* the loop reads a line: readline, strip, json.loads
ReadLine(l) ==
    /\ AtReadline
    /\ l.kind = "eof" \/ nread < MaxLines
    /\ nread' = nread + 1
    /\ line' = IF l.kind = "json" THEN l.value.t ELSE l.kind
    /\ pc' = AfterLine(l.kind)
    /\ IF l.kind = "json"
       THEN /\ request' = l.value
            /\ nparsed' = nparsed + 1
            /\ effects' = << >>
            /\ logged' = {}
       ELSE UNCHANGED << request, nparsed, effects, logged >>
    /\ UNCHANGED << frame, out, outAt, environ, files, style_templates,
                    platform_configs >>

\* handle_mcp_request runs up to its reply, to the exception that leaves
\* it, or to the provider call of generate_image
HandleRequest ==
    /\ pc = "handle"
    /\ LET o == handle_mcp_request(request, environ)
       IN  CASE o.kind = "reply" ->
                    /\ WriteLine(o.response)
                    /\ logged' = o.log
             [] o.kind = "raise" ->
                    /\ pc' = AfterLoopException
                    /\ logged' = o.log
                    /\ request' = NoRequest
                    /\ UNCHANGED << frame, out, outAt >>
             [] OTHER ->
                    /\ pc' = "provider"
                    /\ frame' = [NoFrame EXCEPT
                                    !.api_key = o.api_key,
                                    !.enhanced_prompt = o.enhanced_prompt,
                                    !.negative_prompt = o.negative_prompt]
                    /\ UNCHANGED << request, out, outAt, logged >>
    /\ style_templates' = RegistryAfterRequest(style_templates, request)
    /\ platform_configs' = RegistryAfterRequest(platform_configs, request)
    /\ UNCHANGED << line, nread, nparsed, environ, files, effects >>

\* handle_tool_call and handle_mcp_request wrap the result of
\* generate_image, and the loop prints the response
GenReply(result) ==
    WriteLine(ResultEnvelope(ReqId, GenerateImageContent(result)))

\* mutant of AfterImage: the image is downloaded whatever save_local is
AfterImageAlwaysDownloads(image_url) ==
    /\ pc' = "download"
    /\ frame' = [frame EXCEPT !.image_url = image_url]
    /\ UNCHANGED << request, out, outAt >>

\* generate_image after the image URL is known: download or return
AfterImage(image_url) ==
    IF Truthy(Bound.save_local)
    THEN /\ pc' = "download"
         /\ frame' = [frame EXCEPT !.image_url = image_url]
         /\ UNCHANGED << request, out, outAt >>
    ELSE GenReply(SuccessResult(Bound, image_url, Null))

\* mutant of ProviderCall: a blocking call that failed is made once more
ProviderCallResubmitsOnce ==
    /\ pc = "provider"
    /\ environ' = SetEnviron(environ, frame.api_key)
    /\ effects' = Append(effects,
                          ProviderRequest(Bound.call_mode, frame.enhanced_prompt,
                                          frame.negative_prompt))
    /\ \E o \in CallOutcomes, e \in ExcTexts :
          LET r == call_qwen_api(Bound.call_mode, o, e)
          IN  IF Bound.call_mode = Str("async")
              THEN IF o = "ok"
                   THEN /\ pc' = "poll"
                        /\ UNCHANGED << request, frame, out, outAt, logged >>
                   ELSE /\ o = "raise"
                        /\ GenReply(FailedResult(r.exc))
                        /\ logged' = CallLog(o)
              ELSE IF r.ok
                   THEN /\ AfterImage(r.value)
                        /\ UNCHANGED logged
                   ELSE IF effects = << >>
                   THEN /\ pc' = "provider"
                        /\ UNCHANGED << request, frame, out, outAt, logged >>
                   ELSE /\ GenReply(FailedResult(r.exc))
                        /\ logged' = CallLog(o)
    /\ UNCHANGED << line, nread, nparsed, files, style_templates,
                    platform_configs >>

\* _call_qwen_api: sets the process-wide credential, then calls the
\* provider (multimodal, sync) or submits the job (async)
ProviderCall ==
    /\ pc = "provider"
    /\ environ' = SetEnviron(environ, frame.api_key)
    /\ effects' = Append(effects,
                          ProviderRequest(Bound.call_mode, frame.enhanced_prompt,
                                          frame.negative_prompt))
    /\ \E o \in CallOutcomes, e \in ExcTexts :
          LET r == call_qwen_api(Bound.call_mode, o, e)
          IN  IF Bound.call_mode = Str("async")
              THEN \* ImageSynthesis.async_call and response.output.task_id
                   IF o = "ok"
                   THEN /\ pc' = "poll"
                        /\ UNCHANGED << request, frame, out, outAt, logged >>
                   ELSE /\ o = "raise"
                        /\ GenReply(FailedResult(r.exc))
                        /\ logged' = CallLog(o)
              ELSE IF r.ok
                   THEN /\ AfterImage(r.value)
                        /\ UNCHANGED logged
                   ELSE /\ GenReply(FailedResult(r.exc))
                        /\ logged' = CallLog(o)
    /\ UNCHANGED << line, nread, nparsed, files, style_templates,
                    platform_configs >>

\* one ImageSynthesis.fetch of the polling loop ending as f, and the
\* branch taken on it; a job reports at most MaxPolls statuses that are
\* not terminal
PollOn(f) ==
    /\ pc = "poll"
    /\    IF f.kind = "raise"
          THEN /\ GenReply(FailedResult(f.e))
               /\ logged' = { "api", "generate" }
          ELSE CASE PollStep(f.status) = "return" ->
                        IF f.kind = "status"
                        THEN /\ AfterImage(ProviderUrl)
                             /\ UNCHANGED logged
                        ELSE /\ GenReply(FailedResult("list index out of range"))
                             /\ logged' = { "generate" }
                 [] PollStep(f.status) = "raise" ->
                        /\ GenReply(FailedResult("async task failed: " \o f.status))
                        /\ logged' = { "api", "generate" }
                 [] OTHER ->
                        /\ frame.polls < MaxPolls
                        /\ pc' = "sleep"
                        /\ frame' = [frame EXCEPT !.polls = @ + 1]
                        /\ UNCHANGED << request, out, outAt, logged >>
    /\ UNCHANGED << line, nread, nparsed, environ, files, effects,
                    style_templates, platform_configs >>

\* the polling loop fetches the job once more
Poll == \E f \in FetchOutcomes : PollOn(f)

\* await asyncio.sleep(3) ends
Sleep ==
    /\ pc = "sleep"
    /\ pc' = "poll"
    /\ UNCHANGED << line, nread, nparsed, request, frame, out, outAt, environ,
                    files, effects, logged, style_templates, platform_configs >>

\* _generate_filename and _download_image, then the result of generate_image
Download ==
    /\ pc = "download"
    /\ effects' = Append(effects, DownloadRequest(frame.image_url))
    /\ \E o \in DownloadOutcomes, e \in ExcTexts, ts \in Timestamps, u \in Uuids :
          LET filename == generate_filename(Bound.prompt.s, PyStr(Bound.style),
                                            Bound.size.s, ts, u)
              r == download_image(filename, Bound.output_dir.s, o, e)
          IN  /\ files' = IF DownloadCreatesFile(o) THEN files + 1 ELSE files
              /\ IF r.ok
                 THEN /\ GenReply(SuccessResult(Bound, frame.image_url, r.value))
                      /\ UNCHANGED logged
                 ELSE /\ GenReply(FailedResult(r.exc))
                      /\ logged' = { "download", "generate" }
    /\ UNCHANGED << line, nread, nparsed, environ, style_templates,
                    platform_configs >>

Next ==
    \/ \E l \in Lines : ReadLine(l)
    \/ HandleRequest
    \/ ProviderCall
    \/ Poll
    \/ Sleep
    \/ Download

Spec == Init /\ [][Next]_vars

\* the server handling one generate_image call drawn from the wide range
\* of composer inputs
ComposerSpec == ComposerInit /\ [][Next]_vars

\* ================================================================== claims
Last(s) == s[Len(s)]

\* a request is being handled
Processing == pc \in { "handle", "provider", "poll", "sleep", "download" }

\* request is a JSON object whose method is m
IsCall(m) == request.t = "object" /\ DictGet(request.d, "method", Null) = Str(m)

\* r is a JSON-RPC result whose tool result is flagged isError
IsErrorResult(r) ==
    /\ "result" \in DOMAIN r
    /\ "isError" \in DOMAIN r.result
    /\ r.result.isError

\* r is a JSON-RPC result that wraps the text block of generate_image
IsGenResult(r) ==
    /\ "result" \in DOMAIN r
    /\ "content" \in DOMAIN r.result
    /\ "isError" \notin DOMAIN r.result
    /\ r.result.content[1].text.fmt = "json"
    /\ r.result.content[1].text.value.t = "object"
    /\ "success" \in DOMAIN r.result.content[1].text.value.d

\* the response_data of a generate_image response
GenData(r) == r.result.content[1].text.value.d

\* r is a protocol-level error with this code
IsProtocolError(r, code) == "error" \in DOMAIN r /\ r.error.code = code

\* C1: at every point where the loop reads (or has stopped), each line that
\* parsed as JSON so far has exactly one response line, written while it
\* was the latest parsed line.
C1_EveryParsedLineAnswered ==
    pc \in { "idle", "stopped" } =>
        /\ Len(outAt) = nparsed
        /\ \A i \in 1..Len(outAt) : outAt[i] = i

\* C2: when an exception reaches handle_mcp_request or the loop while a
\* parsed request is handled, the step writes one error response with code
\* -32603 and the loop is back at readline.
C2_ExceptionGivesInternalError ==
    [][ (pc = "handle" /\ logged' \cap { "request", "loop" } # {}) =>
            /\ pc' = "idle"
            /\ Len(out') = Len(out) + 1
            /\ IsProtocolError(Last(out'), -32603)
            /\ Last(out').id = DictGet(request.d, "id", Null) ]_vars

\* C3: the loop has stopped exactly when the line last read was the end of
\* input, whatever lines and failures came before, and the step that
\* stops it is taken from readline and writes nothing.
C3_StopsOnlyAtEndOfInput ==
    [][ /\ (pc' = "stopped") <=> (line' = "eof")
        /\ (pc' = "stopped") => (pc = "idle" /\ out' = out /\ outAt' = outAt) ]_vars

\* C3 witness: end of input stopped the loop after MaxLines lines, the
\* last of which raised out of handle_mcp_request.
C3_Witness ==
    pc = "stopped" /\ nread = MaxLines + 1 /\ "loop" \in logged /\ out # << >>

\* the state part of C4: a request is held exactly while one is handled;
\* responses are written in the order of their requests; while a request
\* is handled its response is not written yet; at readline the response to
\* a request that was a JSON object is the last line written
C4_State ==
    /\ Processing <=> request # NoRequest
    /\ \A i \in 1..Len(outAt) :
          /\ outAt[i] <= nparsed
          /\ i > 1 => outAt[i - 1] < outAt[i]
    /\ Processing => (outAt = << >> \/ Last(outAt) < nparsed)
    /\ (pc = "idle" /\ line = "object") => (outAt # << >> /\ Last(outAt) = nparsed)

\* C4: requests are handled one at a time: a line is read only while no
\* request is being handled, also not while one waits on the provider, the
\* polling sleep or the download, and C4_State holds after every step.
C4_StrictlySequential ==
    [][ /\ (nread' # nread) => (pc = "idle" /\ request = NoRequest)
        /\ (Len(out') # Len(out)) => (Processing /\ out' = Append(out, Last(out'))
                                       /\ outAt' = Append(outAt, nparsed))
        /\ C4_State' ]_vars

\* C4 witness: two object requests answered in order, the second after
\* polling and a download.
C4_Witness ==
    /\ pc = "idle" /\ line = "object" /\ outAt = << 1, 2 >>
    /\ Len(effects) = 2
    /\ effects[1].op = "call" /\ effects[1].call_mode = Str("async")
    /\ effects[2].op = "download"

\* C5: after a download failure the result of generate_image has success
\* false, still carries the provider's URL as image_url, and has no
\* local_path.
C5_DownloadFailureKeepsUrl ==
    (pc = "idle" /\ "download" \in logged) =>
        /\ IsGenResult(Last(out))
        /\ GenData(Last(out)).success = Bool(FALSE)
        /\ GenData(Last(out)).local_path = Null
        /\ GenData(Last(out)).image_url = ProviderUrl

\* C6: every result generate_image returns is fully successful (success,
\* an image URL, a local path if save_local was true, no error message) or
\* fully failed (no success, a non-empty error message, no local path).
C6_ResultIsSuccessOrFailure ==
    [][ (Len(out') # Len(out) /\ IsGenResult(Last(out'))) =>
            LET d == GenData(Last(out'))
            IN  \/ /\ d.success = Bool(TRUE)
                   /\ d.image_url.t = "str" /\ d.image_url.s # ""
                   /\ Truthy(Bound.save_local) =>
                         (d.local_path.t = "str" /\ d.local_path.s # "")
                   /\ "error_message" \notin DOMAIN d
                \/ /\ d.success = Bool(FALSE)
                   /\ "error_message" \in DOMAIN d
                   /\ d.error_message.t = "str" /\ d.error_message.s # ""
                   /\ d.local_path = Null ]_vars

\* C6 witness: a successful result with its local path, then a failed one.
C6_Witness ==
    /\ pc = "idle" /\ Len(out) = 2
    /\ IsGenResult(out[1]) /\ GenData(out[1]).success = Bool(TRUE)
    /\ GenData(out[1]).local_path # Null
    /\ IsGenResult(out[2]) /\ GenData(out[2]).success = Bool(FALSE)

\* C7: the response to a tools/call request whose params is an object is
\* a JSON-RPC result, never a protocol-level error, and when an error was
\* raised inside the tool that result is a block flagged isError or a
\* generate_image result with success false.
C7_ToolErrorsStayToolLevel ==
    [][ (Processing /\ IsCall("tools/call") /\ ReqParams.t = "object"
         /\ Len(out') # Len(out)) =>
            /\ "result" \in DOMAIN Last(out')
            /\ "error" \notin DOMAIN Last(out')
            /\ (logged' # {}) =>
                  \/ IsErrorResult(Last(out'))
                  \/ /\ IsGenResult(Last(out'))
                     /\ GenData(Last(out')).success = Bool(FALSE) ]_vars

\* C7 witness: a tool call that raised while binding its arguments was
\* answered with a block flagged isError.
C7_Witness ==
    pc = "idle" /\ logged = { "tool" } /\ out # << >> /\ IsErrorResult(Last(out))

\* C8: reading a line that is not valid JSON writes nothing, changes
\* nothing but the position in the input, and leaves the loop at readline.
C8_BadJsonIsSkipped ==
    [][ (nread' # nread /\ line' = "badjson") =>
            /\ pc' = "idle"
            /\ UNCHANGED << nparsed, request, frame, out, outAt, environ, files,
                            effects, logged >> ]_vars

\* C8 witness: an unparsable line was read after a request was answered.
C8_Witness == pc = "idle" /\ line = "badjson" /\ out # << >>

\* C9: a request object whose method is none of initialize, tools/list and
\* tools/call (or is missing) is answered at once with error -32601 and
\* the request id; no tool runs, no provider call or download is made.
C9_UnknownMethodIsRejected ==
    [][ (pc = "handle" /\ request.t = "object"
         /\ DictGet(request.d, "method", Null)
                \notin { Str("initialize"), Str("tools/list"), Str("tools/call") }) =>
            /\ pc' = "idle"
            /\ Len(out') = Len(out) + 1
            /\ IsProtocolError(Last(out'), -32601)
            /\ "result" \notin DOMAIN Last(out')
            /\ Last(out').id = DictGet(request.d, "id", Null)
            /\ effects' = << >> /\ logged' = {} /\ frame' = NoFrame
            /\ UNCHANGED << environ, files >> ]_vars

\* C9 witness: a request with an id was answered with error -32601.
C9_Witness ==
    /\ pc = "idle" /\ out # << >>
    /\ IsProtocolError(Last(out), -32601) /\ Last(out).id = Str("7")

\* C10: a tools/call request whose params object names no tool, or a tool
\* other than the four, is answered with a JSON-RPC result whose block is
\* flagged isError, not with a protocol-level error.
C10_UnknownToolIsToolError ==
    [][ (pc = "handle" /\ IsCall("tools/call") /\ ReqParams.t = "object"
         /\ DictGet(ReqParams.d, "name", Null)
                \notin { Str("generate_image"), Str("list_styles"),
                         Str("list_platforms"), Str("get_style_info") }) =>
            /\ pc' = "idle"
            /\ Len(out') = Len(out) + 1
            /\ IsErrorResult(Last(out'))
            /\ "error" \notin DOMAIN Last(out')
            /\ Last(out').id = DictGet(request.d, "id", Null) ]_vars

\* C10 witness: a call without a tool name was answered with a flagged
\* block.
C10_Witness ==
    /\ pc = "idle" /\ out # << >> /\ IsErrorResult(Last(out))
    /\ Last(out).result.content[1].text = PlainText("unknown tool: None")

\* a generate_image result that reports failure with a message
IsFailure(r) ==
    /\ IsGenResult(r)
    /\ GenData(r).success = Bool(FALSE)
    /\ "error_message" \in DOMAIN GenData(r)
    /\ GenData(r).error_message.t = "str"
    /\ GenData(r).error_message.s # ""

\* no download was asked for the request last read
NoDownload(e) == \A i \in 1..Len(e) : e[i].op # "download"

\* no provider submission was made for the request last read
NoProviderCall(e) == \A i \in 1..Len(e) : e[i].op # "call"

\* C11: in async mode, the poll that observes the job FAILED ends the
\* request with a result that has success false and a non-empty
\* error_message; no download is asked and no file is created.
C11_AsyncFailureFailsWithoutDownload ==
    [][ PollOn([kind |-> "status", status |-> "FAILED"]) =>
            /\ pc' = "idle"
            /\ Len(out') = Len(out) + 1
            /\ IsFailure(Last(out'))
            /\ GenData(Last(out')).local_path = Null
            /\ files' = files
            /\ NoDownload(effects') ]_vars

\* C11 witness: an async job whose poll observed FAILED was answered with
\* the failure; nothing was downloaded.
C11_Witness ==
    /\ pc = "idle" /\ out # << >> /\ IsFailure(Last(out))
    /\ GenData(Last(out)).error_message =
           Str("generate image failed: async task failed: FAILED")
    /\ Len(effects) = 1 /\ effects[1].call_mode = Str("async")
    /\ files = 0

\* C12: a request that began processing completes with a response.
\* Requests are handled one at a time and the loop stops only at the end
\* of the input, so when the loop has stopped every line that parsed as a
\* request has its response on standard output, whatever the call mode and
\* the statuses the provider reported.
C12_EveryRequestCompletes ==
    pc = "stopped" => \A n \in 1..nparsed : n \in SeqRange(outAt)

\* the request being handled is a generate_image call whose arguments bind
IsGenerateCall ==
    /\ IsCall("tools/call")
    /\ ReqParams.t = "object"
    /\ DictGet(ReqParams.d, "name", Null) = Str("generate_image")
    /\ BindArguments(ToolArgs).ok

\* C13: a generate_image call without an api_key, made while the
\* credential variable is unset, is answered at once with a failure that
\* carries a message; no provider call and no download are made, nothing
\* else changes, and the loop is back at readline.
C13_MissingKeyFailsOnlyTheCall ==
    [][ (pc = "handle" /\ IsGenerateCall
         /\ ~Truthy(Bound.api_key) /\ ~Truthy(environ)) =>
            /\ pc' = "idle"
            /\ Len(out') = Len(out) + 1
            /\ IsFailure(Last(out'))
            /\ Last(out').id = ReqId
            /\ NoProviderCall(effects') /\ NoDownload(effects')
            /\ UNCHANGED << environ, files >> ]_vars

\* C13 witness: the first request failed for want of a credential, the
\* process still has none, and a second request was answered after it.
C13_Witness ==
    /\ pc = "idle" /\ Len(out) = 2 /\ outAt = << 1, 2 >>
    /\ IsFailure(out[1])
    /\ GenData(out[1]).error_message =
           Str("generate image failed: "
               \o "API key not provided; set it by argument or DASHSCOPE_API_KEY")
    /\ environ = Null
    /\ "result" \in DOMAIN out[2]

\* the generate_image call being handled is at its provider call
AtProviderCall == pc = "provider"

\* a list of fragments without its empty members
SkipEmpty(parts) == SelectSeq(parts, LAMBDA x : x # "")

\* the fragments of the composed prompt in the claimed order: raw prompt,
\* custom text, base fragment of the style unless the raw prompt holds it,
\* photography and lighting fragments, quality keywords, suffix and style
\* modifier of the platform (an absent fragment is the empty text)
OrderedFragments ==
    LET t == StyleTemplate(Bound.style)
        c == PlatformConfig(Bound.platform)
    IN  << Bound.prompt.s,
           IF Bound.custom_enhancement = Null THEN ""
           ELSE Bound.custom_enhancement.s,
           IF Contains(Bound.prompt.s, t.base_prompt) THEN "" ELSE t.base_prompt,
           t.photography_style,
           t.lighting >>
        \o t.quality_keywords
        \o << c.suffix, c.style_modifier >>

\* C14: with enhancement enabled the composed prompt is the ordered
\* fragments joined by the full-width comma with every empty fragment
\* skipped, so it does not start or end with the delimiter.
C14_ComposedPromptSkipsEmptyFragments ==
    (AtProviderCall /\ Truthy(Bound.enable_enhancement)) =>
        /\ frame.enhanced_prompt = Str(Join(FWComma, SkipEmpty(OrderedFragments)))
        /\ SubSeq(frame.enhanced_prompt.s, 1, 1) # FWComma
        /\ SubSeq(frame.enhanced_prompt.s, Len(frame.enhanced_prompt.s),
                  Len(frame.enhanced_prompt.s)) # FWComma

\* C15: with enhancement disabled the composed prompt is the raw prompt,
\* whatever the style, the platform and the custom text, and the raw
\* prompt is the prompt of the request made to the provider.
C15_DisabledEnhancementSendsRawPrompt ==
    [][ (AtProviderCall /\ ~Truthy(Bound.enable_enhancement)
         /\ effects' # effects) =>
            /\ frame.enhanced_prompt = Bound.prompt
            /\ effects' = Append(effects, Last(effects'))
            /\ Last(effects').op = "call"
            /\ Last(effects').prompt = Bound.prompt ]_vars

\* C15 witness: a call with style food, platform xiaohongshu and a custom
\* text went to the provider with the raw prompt, and the result echoes
\* it as the enhanced prompt.
C15_Witness ==
    /\ pc = "idle" /\ out # << >> /\ IsGenResult(Last(out))
    /\ GenData(Last(out)).success = Bool(TRUE)
    /\ GenData(Last(out)).config_used.d.style = Str("food")
    /\ GenData(Last(out)).config_used.d.platform = Str("xiaohongshu")
    /\ GenData(Last(out)).config_used.d.enhanced_prompt = Str("a red bicycle")
    /\ Len(effects) = 1 /\ effects[1].prompt = Str("a red bicycle")

\* the key itself when the registry holds it, general otherwise
StyleOrGeneral(style) == IF InStyleTemplates(style) THEN style ELSE Str("general")
PlatformOrGeneral(platform) ==
    IF InPlatformConfigs(platform) THEN platform ELSE Str("general")

IsToolCall(name) ==
    /\ IsCall("tools/call")
    /\ ReqParams.t = "object"
    /\ DictGet(ReqParams.d, "name", Null) = Str(name)

\* the keys of the mapping a list_styles or list_platforms response holds
ListedKeys(r) == r.result.content[1].text.value.keys

\* C17: the platform registry has the 10 entries of the Platform type and
\* the style registry the 14 of the ContentStyle type: these are the enums
\* tools/list advertises, the keys list_platforms and list_styles return,
\* and keys the composer finds an entry for.
C17_RegistriesHoldTheNamedKeys ==
    [][ (pc = "handle" /\ Len(out') = Len(out) + 1) =>
            LET r == Last(out')
            IN  /\ IsCall("tools/list") =>
                      /\ Len(r.result.platform_enum) = 10
                      /\ SeqRange(r.result.platform_enum) = Platform
                      /\ Len(r.result.style_enum) = 14
                      /\ SeqRange(r.result.style_enum) = ContentStyle
                      /\ \A k \in Platform : InPlatformConfigs(Str(k))
                      /\ \A k \in ContentStyle : InStyleTemplates(Str(k))
                /\ IsToolCall("list_platforms") =>
                      /\ Len(ListedKeys(r)) = 10
                      /\ SeqRange(ListedKeys(r)) = Platform
                /\ IsToolCall("list_styles") =>
                      /\ Len(ListedKeys(r)) = 14
                      /\ SeqRange(ListedKeys(r)) = ContentStyle ]_vars

\* C18: while a generate_image call with save_local false is processed,
\* no download is started and no file is created, and a successful result
\* has the provider's URL and a null local_path.
C18_NoDownloadUnlessSaveLocal ==
    [][ (Processing /\ IsGenerateCall /\ ~Truthy(Bound.save_local)) =>
            /\ pc' # "download"
            /\ files' = files
            /\ NoDownload(effects')
            /\ (Len(out') # Len(out) /\ IsGenResult(Last(out'))
                 /\ GenData(Last(out')).success = Bool(TRUE)) =>
                   /\ GenData(Last(out')).local_path = Null
                   /\ GenData(Last(out')).image_url = ProviderUrl ]_vars

\* C18 witness: a call succeeded with a null local_path after one provider
\* call and nothing else; no file exists.
C18_Witness ==
    /\ pc = "idle" /\ out # << >> /\ IsGenResult(Last(out))
    /\ GenData(Last(out)).success = Bool(TRUE)
    /\ GenData(Last(out)).local_path = Null
    /\ Len(effects) = 1 /\ effects[1].op = "call"
    /\ files = 0

\* C19: the composed negative prompt is the custom negative prompt, when
\* one is given, followed by the style's negative fragment, when it is not
\* empty, joined by the full-width comma; without a custom negative prompt
\* it is the style's fragment alone.
C19_NegativePromptIsCustomThenStyle ==
    AtProviderCall =>
        LET fragment == StyleTemplate(Bound.style).negative_prompt
            custom == Bound.negative_prompt
            given == custom # Null /\ custom # Str("")
        IN  frame.negative_prompt =
                Str(IF ~given THEN fragment
                    ELSE IF fragment = "" THEN custom.s
                    ELSE custom.s \o FWComma \o fragment)

\* C19 witness: a call with style food and the custom negative prompt
\* blurry is at its provider call with the two joined, custom first.
C19_Witness ==
    /\ AtProviderCall
    /\ Bound.style = Str("food") /\ Bound.negative_prompt = Str("blurry")
    /\ frame.negative_prompt =
           Str("blurry;" \o StyleTemplates["food"].negative_prompt)

\* C20: get_style_info answers with the whole template of the style when
\* the style is a key of the registry, and with a block flagged isError
\* (not the general template) when the style is unknown or not given.
C20_StyleInfoOrError ==
    [][ (pc = "handle" /\ IsToolCall("get_style_info") /\ ToolArgs.t = "object") =>
            LET style == DictGet(ToolArgs.d, "style", Null)
                r == Last(out')
            IN  /\ Len(out') = Len(out) + 1
                /\ "result" \in DOMAIN r
                /\ IF InStyleTemplates(style)
                   THEN /\ "isError" \notin DOMAIN r.result
                        /\ r.result.content[1].text =
                               JsonText(Obj(StyleTemplates[style.s]))
                   ELSE /\ IsErrorResult(r)
                        /\ r.result.content[1].text.fmt = "plain" ]_vars

\* C20 witness: the template of food was returned for the first request
\* and an error block for the unknown style of the second.
C20_Witness ==
    /\ pc = "idle" /\ Len(out) = 2
    /\ "result" \in DOMAIN out[1] /\ "content" \in DOMAIN out[1].result
    /\ "isError" \notin DOMAIN out[1].result
    /\ out[1].result.content[1].text = JsonText(Obj(StyleTemplates["food"]))
    /\ IsErrorResult(out[2])
    /\ out[2].result.content[1].text = PlainText("style not found: steampunk")

\* the four fields every generate_image text block carries
AlwaysFields == { "success", "image_url", "local_path", "generation_time" }

\* C21: the response to a generate_image call that generate_image accepted
\* is a JSON text block that carries success, image_url, local_path and
\* generation_time; it carries error_message exactly when the generation
\* failed (the except branch of generate_image ran) and config_used exactly
\* when it succeeded, and no other field.
C21_TextBlockFields ==
    [][ (Processing /\ IsGenerateCall /\ Len(out') # Len(out)) =>
            /\ IsGenResult(Last(out'))
            /\ LET d == GenData(Last(out'))
                   failed == "generate" \in logged'
               IN  /\ AlwaysFields \subseteq DOMAIN d
                   /\ DOMAIN d \subseteq AlwaysFields \cup { "error_message", "config_used" }
                   /\ d.generation_time = GenerationTime
                   /\ d.success = Bool(~failed)
                   /\ "error_message" \in DOMAIN d <=> failed
                   /\ "config_used" \in DOMAIN d <=> ~failed ]_vars

\* C21 witness: a successful block with config_used and without
\* error_message, then a failed block with error_message and without
\* config_used.
C21_Witness ==
    /\ pc = "idle" /\ Len(out) = 2
    /\ IsGenResult(out[1])
    /\ DOMAIN GenData(out[1]) = AlwaysFields \cup { "config_used" }
    /\ GenData(out[1]).success = Bool(TRUE)
    /\ IsGenResult(out[2])
    /\ DOMAIN GenData(out[2]) = AlwaysFields \cup { "error_message" }
    /\ GenData(out[2]).success = Bool(FALSE)

\* C22: a request object whose method is initialize or tools/list is
\* answered at once with a JSON-RPC result, never an error, whatever its
\* params is: initialize with protocol version 2025-03-26 and the
\* capabilities {tools: {}}, tools/list with exactly the four tools; no
\* provider call or download is started and nothing else changes.
C22_IntrospectionAlwaysSucceeds ==
    [][ (pc = "handle" /\ (IsCall("initialize") \/ IsCall("tools/list"))) =>
            /\ pc' = "idle"
            /\ Len(out') = Len(out) + 1
            /\ "result" \in DOMAIN Last(out')
            /\ "error" \notin DOMAIN Last(out')
            /\ Last(out').id = ReqId
            /\ IsCall("initialize") =>
                  /\ Last(out').result.protocolVersion = "2025-03-26"
                  /\ Last(out').result.capabilities = [tools |-> EmptyDict]
            /\ IsCall("tools/list") =>
                  Last(out').result.tools =
                      << "generate_image", "list_styles", "list_platforms",
                         "get_style_info" >>
            /\ NoProviderCall(effects') /\ NoDownload(effects')
            /\ frame' = NoFrame /\ logged' = {}
            /\ UNCHANGED << environ, files >> ]_vars

\* C22 witness: an initialize request and then a tools/list request were
\* answered with their results.
C22_Witness ==
    /\ pc = "idle" /\ Len(out) = 2 /\ outAt = << 1, 2 >>
    /\ "result" \in DOMAIN out[1] /\ "protocolVersion" \in DOMAIN out[1].result
    /\ "result" \in DOMAIN out[2] /\ "tools" \in DOMAIN out[2].result
    /\ Len(out[2].result.tools) = 4

\* r is a generate_image result whose image was saved to a file
IsSaved(r) ==
    /\ IsGenResult(r)
    /\ GenData(r).success = Bool(TRUE)
    /\ GenData(r).local_path # Null

\* the file name of a path under the default output directory
FileName(path) == SubSeq(path, Len(GenDefaults.output_dir.s) + 2, Len(path))

\* the clock reading a file name was built from
StampOf(filename) ==
    CHOOSE ts \in Timestamps : Contains(filename, "qwen_" \o ts \o "_")

\* C23: two file names generated for the same prompt, style and size in
\* the same second are different.
C23_SameSecondNamesDiffer ==
    \A i, j \in 1..Len(out) :
        (/\ i < j /\ IsSaved(out[i]) /\ IsSaved(out[j])
         /\ \A k \in { "prompt", "style", "size" } :
                GenData(out[i]).config_used.d[k] = GenData(out[j]).config_used.d[k]
         /\ StampOf(FileName(GenData(out[i]).local_path.s))
                = StampOf(FileName(GenData(out[j]).local_path.s)))
        => FileName(GenData(out[i]).local_path.s)
               # FileName(GenData(out[j]).local_path.s)

\* the step leaves the polling loop with the provider's response: the
\* download starts, or the successful result is written
PollReturned ==
    \/ pc' = "download"
    \/ /\ pc' = "idle" /\ Len(out') = Len(out) + 1
       /\ IsGenResult(Last(out')) /\ GenData(Last(out')).success = Bool(TRUE)

\* the step leaves the polling loop by the raise of the loop itself
PollRaised ==
    /\ pc' = "idle" /\ Len(out') = Len(out) + 1
    /\ IsFailure(Last(out'))
    /\ Contains(GenData(Last(out')).error_message.s, "async task failed: ")

\* C24: in async mode the job is submitted once; a poll that observes
\* SUCCEEDED returns, one that observes FAILED raises, and one that
\* observes any other status sleeps and polls again, however many polls
\* came before; the loop returns only on SUCCEEDED and raises only on
\* FAILED.
C24_AsyncPollsUntilTerminal ==
    [][ /\ \A st \in JobStatuses :
              PollOn([kind |-> "status", status |-> st]) =>
                  CASE st = "SUCCEEDED" -> PollReturned
                    [] st = "FAILED" -> PollRaised
                    [] OTHER -> /\ pc' = "sleep"
                                /\ frame'.polls = frame.polls + 1
                                /\ UNCHANGED << out, effects, files, request >>
        /\ pc = "sleep" => (pc' = "poll" /\ UNCHANGED << out, effects, frame >>)
        /\ (pc = "poll" /\ PollReturned) =>
              PollOn([kind |-> "status", status |-> "SUCCEEDED"])
        /\ (pc = "poll" /\ PollRaised) =>
              PollOn([kind |-> "status", status |-> "FAILED"])
        /\ pc' \in { "poll", "sleep" } =>
              /\ Len(effects') = 1
              /\ effects'[1].op = "call"
              /\ effects'[1].call_mode = Str("async") ]_vars

\* C24 witness: after MaxPolls polls that observed a status that is not
\* terminal, each followed by the sleep, a poll observed SUCCEEDED and the
\* download of the image starts; the job was submitted once.
C24_Witness ==
    /\ pc = "download" /\ frame.polls = MaxPolls
    /\ Len(effects) = 1 /\ effects[1].call_mode = Str("async")

\* s starts with x
StartsWith(s, x) == Len(x) <= Len(s) /\ SubSeq(s, 1, Len(x)) = x

\* number of places of s at which sub occurs
Occurrences(s, sub) ==
    Cardinality({ i \in 1..(Len(s) - Len(sub) + 1) :
                    SubSeq(s, i, i + Len(sub) - 1) = sub })

\* what the caller gave of the composed prompt: the raw prompt and the
\* custom text
CallerPart ==
    Bound.prompt.s
    \o (IF Truthy(Bound.custom_enhancement)
        THEN FWComma \o Bound.custom_enhancement.s ELSE "")

\* what the composer added to the composed prompt e
ComposerPart(e) == SubSeq(e, Len(CallerPart) + 1, Len(e))

\* C25: with enhancement enabled, the composer appends the base fragment
\* of the style, right after the caller's texts, exactly when the fragment
\* is non-empty and is not a substring of the raw prompt (the custom text
\* is not looked at); what the composer added holds the fragment once in
\* that case and not at all otherwise.
C25_BaseFragmentAddedUnlessInRawPrompt ==
    (AtProviderCall /\ Truthy(Bound.enable_enhancement)) =>
        LET base == StyleTemplate(Bound.style).base_prompt
            e == frame.enhanced_prompt.s
            wanted == base # "" /\ ~Contains(Bound.prompt.s, base)
        IN  /\ StartsWith(e, CallerPart)
            /\ wanted <=> StartsWith(ComposerPart(e), FWComma \o base \o FWComma)
            /\ Occurrences(ComposerPart(e), base) = IF wanted THEN 1 ELSE 0

\* C25 witness: a call with style food whose raw prompt holds the base
\* fragment of food is at its provider call, and the composed prompt goes
\* from the raw prompt straight to the photography fragment.
C25_Witness ==
    /\ AtProviderCall /\ Truthy(Bound.enable_enhancement)
    /\ Bound.style = Str("food")
    /\ Bound.prompt = Str("food photography;refined plating")
    /\ Bound.custom_enhancement = Null
    /\ StartsWith(frame.enhanced_prompt.s,
                  "food photography;refined plating;food close-up;refined plating;")

\* the key to display-name mappings of the registries as __init__ loaded
\* them, with the keys in insertion order
LoadedStyleNames ==
    OrderedObj(StyleKeys, [ k \in SeqRange(StyleKeys) |-> StyleTemplates[k].name ])
LoadedPlatformNames ==
    OrderedObj(PlatformKeys,
               [ k \in SeqRange(PlatformKeys) |-> PlatformConfigs[k].name ])

\* C26: no step changes the style or the platform registry, and after any
\* requests list_styles and list_platforms answer with the key to
\* display-name mapping of the registry as it was loaded, keys in the same
\* order, which is what they answer when they are the first request.
C26_RegistriesNeverChange ==
    [][ /\ UNCHANGED << style_templates, platform_configs >>
        /\ (pc = "handle" /\ IsToolCall("list_styles")) =>
              /\ Len(out') = Len(out) + 1
              /\ Last(out').result = TextContent(JsonText(LoadedStyleNames))
        /\ (pc = "handle" /\ IsToolCall("list_platforms")) =>
              /\ Len(out') = Len(out) + 1
              /\ Last(out').result = TextContent(JsonText(LoadedPlatformNames)) ]_vars

\* C26 witness: a get_style_info call for a style the registry does not
\* hold was answered, and the list_styles call after it returned the 14
\* loaded keys in order.
C26_Witness ==
    /\ pc = "idle" /\ Len(out) = 2
    /\ IsErrorResult(out[1])
    /\ out[1].result.content[1].text = PlainText("style not found: steampunk")
    /\ "result" \in DOMAIN out[2]
    /\ out[2].result = TextContent(JsonText(LoadedStyleNames))
    /\ out[2].result.content[1].text.value.keys = StyleKeys

\* C27: within one generate_image call the credential is resolved and the
\* prompts composed before the provider submission, at most one
\* submission is made, and at most one download, made only after the
\* provider gave the image and with save_local true; the step that fails
\* ends the call, so that no later step of it happens.
C27_StepsInOrderAtMostOnce ==
    [][ /\ Len(effects') <= 2
        /\ Len(effects') >= 1 => effects'[1].op = "call"
        /\ Len(effects') = 2 => effects'[2].op = "download"
        /\ pc' = "provider" =>
              /\ effects' = << >>
              /\ Truthy(frame'.api_key)
              /\ frame'.enhanced_prompt.t = "str"
              /\ frame'.negative_prompt.t = "str"
        /\ pc' \in { "poll", "sleep" } => Len(effects') = 1
        /\ pc' = "download" =>
              /\ Len(effects') = 1
              /\ Truthy(Bound.save_local)
              /\ frame'.image_url = ProviderUrl
        /\ (Len(effects') > Len(effects) /\ Last(effects').op = "download") =>
              /\ pc = "download"
              /\ Truthy(Bound.save_local)
              /\ frame.image_url = ProviderUrl
        /\ (Processing /\ IsGenerateCall /\ Len(out') # Len(out)) =>
              /\ pc' = "idle" /\ request' = NoRequest
              /\ "generate" \in logged' =>
                    /\ IsFailure(Last(out'))
                    /\ pc = "handle" => effects' = << >>
                    /\ pc \in { "provider", "poll" } =>
                          (Len(effects') = 1 /\ NoDownload(effects'))
                    /\ pc = "download" => Len(effects') = 2 ]_vars

\* C27 witness: the first request, a call with an explicit key in the
\* default mode, went through the provider submission and the download
\* in that order, once each, and was answered with the saved image.
C27_Witness ==
    /\ pc = "idle" /\ Len(out) = 1 /\ IsSaved(out[1])
    /\ environ = Str("sk-arg")
    /\ Len(effects) = 2
    /\ effects[1].op = "call" /\ effects[1].call_mode = Str("multimodal")
    /\ effects[2].op = "download" /\ effects[2].url = ProviderUrl

\* the generate_image call being handled gives no api_key
IsKeylessCall == IsGenerateCall /\ ~Truthy(Bound.api_key)

\* C28: every provider call overwrites the process-wide credential with
\* the key it runs with, and nothing else changes the credential; a
\* generate_image call that gives no api_key runs with the credential as
\* the last provider call left it, so it reaches the provider with the key
\* K of an earlier call, and fails with the configuration error only when
\* the process started without the variable and no earlier call reached
\* the provider.
C28_CredentialLeaksAcrossRequests ==
    [][ /\ pc = "provider" =>
              /\ frame.api_key = PyOr(Bound.api_key, environ)
              /\ environ' = frame.api_key
        /\ environ' # environ =>
              (pc = "provider" /\ Truthy(Bound.api_key) /\ environ' = Bound.api_key)
        /\ (pc = "handle" /\ IsKeylessCall) =>
              IF Truthy(environ)
              THEN pc' = "provider" /\ frame'.api_key = environ /\ out' = out
              ELSE /\ pc' = "idle" /\ IsFailure(Last(out'))
                   /\ Contains(GenData(Last(out')).error_message.s,
                               "API key not provided")
                   /\ environ = Null
                   /\ \A i \in 1..Len(out) :
                         IsGenResult(out[i]) =>
                             /\ IsFailure(out[i])
                             /\ Contains(GenData(out[i]).error_message.s,
                                         "API key not provided") ]_vars

\* C28 witness: the first request, a call with the explicit key sk-arg,
\* went to the provider and was answered; the second request gives no
\* api_key and is at its provider call with sk-arg as its key.
C28_Witness ==
    /\ pc = "provider" /\ nparsed = 2 /\ Len(out) = 1
    /\ IsGenResult(out[1])
    /\ IsKeylessCall
    /\ environ = Str("sk-arg")
    /\ frame.api_key = Str("sk-arg")

\* C29: a generate_image call whose arguments object lacks prompt, or
\* holds a field that is no parameter of generate_image, is answered at
\* once with a block flagged isError that reports the failed call, not
\* with a result of generate_image: the credential is not resolved (the
\* answer is the same with the credential variable unset), and no provider
\* call or download is made.
C29_BadArgumentsRejectedWhole ==
    [][ (/\ pc = "handle" /\ IsToolCall("generate_image")
         /\ ToolArgs.t = "object"
         /\ \/ "prompt" \notin DOMAIN ToolArgs.d
            \/ DOMAIN ToolArgs.d \ GenParams # {}) =>
            /\ pc' = "idle"
            /\ Len(out') = Len(out) + 1
            /\ IsErrorResult(Last(out'))
            /\ "error" \notin DOMAIN Last(out')
            /\ Last(out').id = ReqId
            /\ Last(out').result.content[1].text.fmt = "plain"
            /\ StartsWith(Last(out').result.content[1].text.s,
                          "tool call failed: generate_image() ")
            /\ "generate" \notin logged'
            /\ frame' = NoFrame
            /\ effects' = << >>
            /\ UNCHANGED << environ, files >> ]_vars

\* C29 witness: in a process without the credential variable, a call with
\* a field generate_image does not know was answered with the flagged
\* block that names the unexpected argument; nothing else happened.
C29_Witness ==
    /\ pc = "idle" /\ out # << >> /\ IsErrorResult(Last(out))
    /\ Last(out).result.content[1].text =
           PlainText("tool call failed: "
                     \o "generate_image() got an unexpected keyword argument")
    /\ environ = Null /\ effects = << >> /\ files = 0

====
